---- MODULE Spec2Model ----
(***************************************************************************)
(* A model of the artnet_protocol packet codec: the field conversion       *)
(* protocol (convert.rs), the bounded PortAddress (port_address.rs), the   *)
(* Output payload types (command/output/mod.rs), the packet bodies built   *)
(* by the data_structure! macro (macros.rs) and the command envelope       *)
(* (command/mod.rs).  Bytes are integers 0..255, buffers are sequences of  *)
(* bytes, a Result is a record with an `ok` flag.                          *)
(***************************************************************************)
EXTENDS Integers, Sequences, FiniteSets, TLC

VARIABLES pc, src, pa, conv, enc, v, b, d, b2

vars == <<pc, src, pa, conv, enc, v, b, d, b2>>

(***************************************************************************)
(* Results and errors (error.rs)                                           *)
(***************************************************************************)
Ok(val) == [ok |-> TRUE, val |-> val]

Err(e) == [ok |-> FALSE, err |-> e]

CursorEof == [kind |-> "CursorEof"]

SerializeError(msg, inner) == [kind |-> "SerializeError", msg |-> msg, inner |-> inner]

DeserializeError(msg, inner) == [kind |-> "DeserializeError", msg |-> msg, inner |-> inner]

MessageTooShort(message, min_len) ==
    [kind |-> "MessageTooShort", message |-> message, min_len |-> min_len]

MessageSizeInvalid(message, lo, hi) ==
    [kind |-> "MessageSizeInvalid", message |-> message,
     allowed_size |-> [start |-> lo, end |-> hi]]

InvalidArtnetHeader(buffer) == [kind |-> "InvalidArtnetHeader", message |-> buffer]

OpcodeError(name, inner) == [kind |-> "OpcodeError", name |-> name, inner |-> inner]

UnknownOpcode(code) == [kind |-> "UnknownOpcode", code |-> code]

InvalidPortAddress(value) == [kind |-> "InvalidPortAddress", value |-> value]

InvalidTimecodeFrameType(value) == [kind |-> "InvalidTimecodeFrameType", value |-> value]

(***************************************************************************)
(* Integer widths and byte order (byteorder's read_u16 / write_u16)        *)
(***************************************************************************)
U16_MODULUS == 65536

WriteU16LE(buffer, x) == buffer \o <<x % 256, (x \div 256) % 256>>

WriteU16BE(buffer, x) == buffer \o <<(x \div 256) % 256, x % 256>>

\* The bytes of the cursor's buffer from position pos (0-based) to the end.
Remaining(data, pos) == SubSeq(data, pos + 1, Len(data))

\* Indexing a slice with a range that ends past its length does not return:
\* the thread panics.  The outcome is kept as a value that is no Error.
Panic == [ok |-> FALSE, err |-> [kind |-> "panic"]]

\* &buffer[lo..hi] with 0-based bounds, hi exclusive.
Slice(buffer, lo, hi) ==
    IF lo <= hi /\ hi <= Len(buffer) THEN Ok(SubSeq(buffer, lo + 1, hi)) ELSE Panic

\* &buffer[lo..]
SliceFrom(buffer, lo) ==
    IF lo <= Len(buffer) THEN Ok(Remaining(buffer, lo)) ELSE Panic

\* Cursor reads: Ok carries the value and the new position, a read past the
\* end is an UnexpectedEof io error, wrapped by the caller in CursorEof.
ReadU8(data, pos) ==
    IF pos + 1 <= Len(data)
    THEN [ok |-> TRUE, val |-> data[pos + 1], pos |-> pos + 1]
    ELSE Err(CursorEof)

ReadExact(data, pos, n) ==
    IF pos + n <= Len(data)
    THEN [ok |-> TRUE, val |-> SubSeq(data, pos + 1, pos + n), pos |-> pos + n]
    ELSE Err(CursorEof)

ReadU16LE(data, pos) ==
    IF pos + 2 <= Len(data)
    THEN [ok |-> TRUE, val |-> data[pos + 1] + 256 * data[pos + 2], pos |-> pos + 2]
    ELSE Err(CursorEof)

ReadU16BE(data, pos) ==
    IF pos + 2 <= Len(data)
    THEN [ok |-> TRUE, val |-> 256 * data[pos + 1] + data[pos + 2], pos |-> pos + 2]
    ELSE Err(CursorEof)

RECURSIVE BitAnd(_, _)
BitAnd(x, y) ==
    IF x = 0 \/ y = 0 THEN 0
    ELSE (x % 2) * (y % 2) + 2 * BitAnd(x \div 2, y \div 2)

(***************************************************************************)
(* convert.rs: the primitive Convertable instances                         *)
(***************************************************************************)
Ipv4Addr_from_cursor(data, pos) ==
    LET o1 == ReadU8(data, pos) IN
    IF ~o1.ok THEN o1 ELSE
    LET o2 == ReadU8(data, o1.pos) IN
    IF ~o2.ok THEN o2 ELSE
    LET o3 == ReadU8(data, o2.pos) IN
    IF ~o3.ok THEN o3 ELSE
    LET o4 == ReadU8(data, o3.pos) IN
    IF ~o4.ok THEN o4 ELSE
    [ok |-> TRUE, val |-> <<o1.val, o2.val, o3.val, o4.val>>, pos |-> o4.pos]

Ipv4Addr_write_to_buffer(self, buffer) == Ok(buffer \o self)

u8_from_cursor(data, pos) == ReadU8(data, pos)

u8_write_to_buffer(self, buffer) == Ok(Append(buffer, self))

array_from_cursor(n, data, pos) == ReadExact(data, pos, n)

array_write_to_buffer(self, buffer) == Ok(buffer \o self)

\* Mutation: the 16-bit value read in the wrong byte order.
u16_from_cursor_big_endian(data, pos) == ReadU16BE(data, pos)

u16_from_cursor(data, pos) == ReadU16LE(data, pos)

\* Mutation: the 16-bit value written most significant byte first.
u16_write_to_buffer_big_endian(self, buffer) == Ok(WriteU16BE(buffer, self))

u16_write_to_buffer(self, buffer) == Ok(WriteU16LE(buffer, self))

(***************************************************************************)
(* enums.rs: ArtTalkToMe, a bit-set over one byte                          *)
(***************************************************************************)
ENABLE_VLC == 16

UNICAST_DIAGNOSTICS == 8

ENABLE_DIAGNOSTICS == 4

EMIT_CHANGES == 2

NONE == 0

ArtTalkToMe_all == ENABLE_VLC + UNICAST_DIAGNOSTICS + ENABLE_DIAGNOSTICS + EMIT_CHANGES + NONE

\* Mutation: unknown bits are kept instead of cleared.
from_bits_retain(bits) == bits

from_bits_truncate(bits) == BitAnd(bits, ArtTalkToMe_all)

ArtTalkToMe_from_cursor(data, pos) ==
    LET r == ReadU8(data, pos) IN
    IF ~r.ok THEN r
    ELSE [ok |-> TRUE, val |-> from_bits_truncate(r.val), pos |-> r.pos]

ArtTalkToMe_write_to_buffer(self, buffer) == Ok(Append(buffer, self))

(***************************************************************************)
(* command/timecode.rs: FrameType, a fieldless enum with four values       *)
(***************************************************************************)
FrameTypes == <<"Film", "EBU", "DF", "SMPTE">>

\* Mutation: a byte that names no frame type is read as Film.
FrameType_try_from_defaulting(value) ==
    IF value + 1 \in DOMAIN FrameTypes
    THEN Ok(FrameTypes[value + 1])
    ELSE Ok(FrameTypes[1])

FrameType_try_from(value) ==
    IF value + 1 \in DOMAIN FrameTypes
    THEN Ok(FrameTypes[value + 1])
    ELSE Err(InvalidTimecodeFrameType(value))

\* `*self as u8`: the discriminant of the value.
FrameType_as_u8(self) == (CHOOSE i \in DOMAIN FrameTypes : FrameTypes[i] = self) - 1

FrameType_from_cursor(data, pos) ==
    LET number == ReadU8(data, pos) IN
    IF ~number.ok THEN number
    ELSE LET r == FrameType_try_from(number.val) IN
         IF r.ok THEN [ok |-> TRUE, val |-> r.val, pos |-> number.pos] ELSE r

FrameType_write_to_buffer(self, buffer) == Ok(Append(buffer, FrameType_as_u8(self)))

(***************************************************************************)
(* command/trigger.rs: TriggerKey, four named keys and Undefined(u8)       *)
(***************************************************************************)
TriggerKeys == <<"Ascii", "Macro", "Soft", "Show">>

TriggerKey_named(name) == [key |-> name]

TriggerKey_Undefined(other) == [key |-> "Undefined", other |-> other]

TriggerKey_try_from(value) ==
    IF value + 1 \in DOMAIN TriggerKeys
    THEN Ok(TriggerKey_named(TriggerKeys[value + 1]))
    ELSE Ok(TriggerKey_Undefined(value))

\* Mutation: every undefined key is written as 255.
TriggerKey_into_u8_saturating(self) ==
    IF self.key = "Undefined"
    THEN 255
    ELSE (CHOOSE i \in DOMAIN TriggerKeys : TriggerKeys[i] = self.key) - 1

TriggerKey_into_u8(self) ==
    IF self.key = "Undefined"
    THEN self.other
    ELSE (CHOOSE i \in DOMAIN TriggerKeys : TriggerKeys[i] = self.key) - 1

TriggerKey_from_cursor(data, pos) ==
    LET number == ReadU8(data, pos) IN
    IF ~number.ok THEN number
    ELSE LET r == TriggerKey_try_from(number.val) IN
         IF r.ok THEN [ok |-> TRUE, val |-> r.val, pos |-> number.pos] ELSE r

TriggerKey_write_to_buffer(self, buffer) == Ok(Append(buffer, TriggerKey_into_u8(self)))

(***************************************************************************)
(* port_address.rs: PortAddress, a 15-bit unsigned integer                 *)
(***************************************************************************)
PORT_ADDRESS_MAX == 32767

PortAddress_from_u8(value) == value % U16_MODULUS

PortAddress_try_from_u16(value) ==
    IF value <= PORT_ADDRESS_MAX
    THEN Ok(value)
    ELSE Err(InvalidPortAddress(value))

\* Mutation: the lower bound of the range check left out.
PortAddress_try_from_i32_no_lower_bound(value) ==
    IF value <= PORT_ADDRESS_MAX
    THEN Ok(value % U16_MODULUS)
    ELSE Err(InvalidPortAddress(value))

PortAddress_try_from_i32(value) ==
    IF value \in 0..PORT_ADDRESS_MAX
    THEN Ok(value % U16_MODULUS)
    ELSE Err(InvalidPortAddress(value))

\* Mutation: the wire value masked to 15 bits instead of range-checked.
PortAddress_from_cursor_masked(data, pos) ==
    LET number == ReadU16LE(data, pos) IN
    IF ~number.ok THEN number
    ELSE [ok |-> TRUE, val |-> number.val % (PORT_ADDRESS_MAX + 1), pos |-> number.pos]

PortAddress_from_cursor(data, pos) ==
    LET number == ReadU16LE(data, pos) IN
    IF ~number.ok THEN number
    ELSE LET p == PortAddress_try_from_u16(number.val) IN
         IF p.ok THEN [ok |-> TRUE, val |-> p.val, pos |-> number.pos] ELSE p

PortAddress_write_to_buffer(self, buffer) == Ok(WriteU16LE(buffer, self))

(***************************************************************************)
(* command/output/mod.rs: PaddedData and BigEndianLength                   *)
(***************************************************************************)
MAX_DATA_LEN == 512

MIN_ALLOWED_SIZE == 2

PaddedData_len(self) == Len(self)

len_rounded_up(self) ==
    LET len == Len(self) IN
    IF len % 2 # 0 THEN len + 1 ELSE len

\* Mutation: at most 512 bytes are taken.
PaddedData_from_cursor_capped(data, pos) ==
    LET inner == SliceFrom(data, pos) IN
    IF inner.ok
    THEN [ok |-> TRUE,
          val |-> SubSeq(inner.val, 1, IF Len(inner.val) > MAX_DATA_LEN THEN MAX_DATA_LEN
                                       ELSE Len(inner.val)),
          pos |-> pos]
    ELSE inner

PaddedData_from_cursor(data, pos) ==
    LET inner == SliceFrom(data, pos) IN
    IF inner.ok THEN [ok |-> TRUE, val |-> inner.val, pos |-> pos] ELSE inner

\* Mutation: the upper limit checked with >= instead of >.
PaddedData_write_to_buffer_off_by_one(self, buffer) ==
    LET len == PaddedData_len(self) IN
    IF len = 0
    THEN Err(MessageSizeInvalid(<<>>, MIN_ALLOWED_SIZE, MAX_DATA_LEN))
    ELSE IF len >= MAX_DATA_LEN
    THEN Err(MessageSizeInvalid(self, MIN_ALLOWED_SIZE, MAX_DATA_LEN))
    ELSE Ok(IF len % 2 # 0 THEN Append(buffer \o self, 0) ELSE buffer \o self)

\* Mutation: the padding byte left out.
PaddedData_write_to_buffer_unpadded(self, buffer) ==
    LET len == PaddedData_len(self) IN
    IF len = 0
    THEN Err(MessageSizeInvalid(<<>>, MIN_ALLOWED_SIZE, MAX_DATA_LEN))
    ELSE IF len > MAX_DATA_LEN
    THEN Err(MessageSizeInvalid(self, MIN_ALLOWED_SIZE, MAX_DATA_LEN))
    ELSE Ok(buffer \o self)

PaddedData_write_to_buffer(self, buffer) ==
    LET len == PaddedData_len(self) IN
    IF len = 0
    THEN Err(MessageSizeInvalid(<<>>, MIN_ALLOWED_SIZE, MAX_DATA_LEN))
    ELSE IF len > MAX_DATA_LEN
    THEN Err(MessageSizeInvalid(self, MIN_ALLOWED_SIZE, MAX_DATA_LEN))
    ELSE Ok(IF len % 2 # 0 THEN Append(buffer \o self, 0) ELSE buffer \o self)

\* One call of write_to_buffer with everything it leaves behind: the Result,
\* the caller's buffer after the call, and the bytes self holds after it.
\* self is borrowed immutably and holds a plain Vec<u8>.
\* Mutation: the bytes are appended before the length is validated.
PaddedData_write_to_buffer_call_eager(self, buffer) ==
    [res |-> PaddedData_write_to_buffer(self, buffer),
     buffer |-> IF Len(self) % 2 # 0 THEN Append(buffer \o self, 0) ELSE buffer \o self,
     inner |-> self]

PaddedData_write_to_buffer_call(self, buffer) ==
    LET res == PaddedData_write_to_buffer(self, buffer) IN
    [res |-> res,
     buffer |-> IF res.ok THEN res.val ELSE buffer,
     inner |-> self]

\* command/output.rs: PaddedData holds its bytes in an RwLock, and into_buffer
\* pushes the padding byte into them before it copies them out.
PaddedData_into_buffer_call(self, buffer) ==
    LET len == Len(self) IN
    IF len = 0
    THEN [res |-> Err(MessageSizeInvalid(<<>>, MIN_ALLOWED_SIZE, MAX_DATA_LEN)),
          buffer |-> buffer, inner |-> self]
    ELSE IF len > MAX_DATA_LEN
    THEN [res |-> Err(MessageSizeInvalid(self, MIN_ALLOWED_SIZE, MAX_DATA_LEN)),
          buffer |-> buffer, inner |-> self]
    ELSE LET inner == IF len % 2 # 0 THEN Append(self, 0) ELSE self IN
         [res |-> Ok(buffer \o inner), buffer |-> buffer \o inner, inner |-> inner]

\* Option<u16> is a sequence of at most one element: <<>> is None.
BigEndianLength_default == <<>>

\* Mutation: the length read least significant byte first.
BigEndianLength_from_cursor_little_endian(data, pos) ==
    LET length == ReadU16LE(data, pos) IN
    IF ~length.ok THEN length
    ELSE [ok |-> TRUE, val |-> <<length.val>>, pos |-> length.pos]

BigEndianLength_from_cursor(data, pos) ==
    LET length == ReadU16BE(data, pos) IN
    IF ~length.ok THEN length
    ELSE [ok |-> TRUE, val |-> <<length.val>>, pos |-> length.pos]

\* Mutation: the logical length written instead of the rounded-up length.
BigEndianLength_write_to_buffer_unrounded(self, buffer, context) ==
    LET len == PaddedData_len(context.data) % U16_MODULUS IN
    Ok(WriteU16BE(buffer, len))

\* Mutation: the length the Output holds written when there is one.
BigEndianLength_write_to_buffer_stored(self, buffer, context) ==
    LET len == IF self = <<>> THEN len_rounded_up(context.data) % U16_MODULUS ELSE self[1] IN
    Ok(WriteU16BE(buffer, len))

BigEndianLength_write_to_buffer(self, buffer, context) ==
    LET len == len_rounded_up(context.data) % U16_MODULUS IN
    Ok(WriteU16BE(buffer, len))

(***************************************************************************)
(* convert.rs: the Convertable trait, dispatched on the field's type.      *)
(* A field descriptor names the field, its type and, for [u8; n], n.       *)
(***************************************************************************)
Field(name, ty, n) == [name |-> name, ty |-> ty, n |-> n]

Convertable_from_cursor(field, data, pos) ==
    CASE field.ty = "u8" -> u8_from_cursor(data, pos)
      [] field.ty = "u16" -> u16_from_cursor(data, pos)
      [] field.ty = "array" -> array_from_cursor(field.n, data, pos)
      [] field.ty = "Ipv4Addr" -> Ipv4Addr_from_cursor(data, pos)
      [] field.ty = "ArtTalkToMe" -> ArtTalkToMe_from_cursor(data, pos)
      [] field.ty = "PortAddress" -> PortAddress_from_cursor(data, pos)
      [] field.ty = "BigEndianLength" -> BigEndianLength_from_cursor(data, pos)
      [] field.ty = "PaddedData" -> PaddedData_from_cursor(data, pos)
      [] field.ty = "FrameType" -> FrameType_from_cursor(data, pos)
      [] field.ty = "TriggerKey" -> TriggerKey_from_cursor(data, pos)

Convertable_write_to_buffer(field, self, buffer, context) ==
    CASE field.ty = "u8" -> u8_write_to_buffer(self, buffer)
      [] field.ty = "u16" -> u16_write_to_buffer(self, buffer)
      [] field.ty = "array" -> array_write_to_buffer(self, buffer)
      [] field.ty = "Ipv4Addr" -> Ipv4Addr_write_to_buffer(self, buffer)
      [] field.ty = "ArtTalkToMe" -> ArtTalkToMe_write_to_buffer(self, buffer)
      [] field.ty = "PortAddress" -> PortAddress_write_to_buffer(self, buffer)
      [] field.ty = "BigEndianLength" -> BigEndianLength_write_to_buffer(self, buffer, context)
      [] field.ty = "PaddedData" -> PaddedData_write_to_buffer(self, buffer)
      [] field.ty = "FrameType" -> FrameType_write_to_buffer(self, buffer)
      [] field.ty = "TriggerKey" -> TriggerKey_write_to_buffer(self, buffer)

(***************************************************************************)
(* The packet bodies: field lists in declaration order                     *)
(***************************************************************************)
\* Mutation: talk_to_me and diagnostics_priority declared in the other order.
Poll_fields_swapped ==
    << Field("version", "array", 2),
       Field("diagnostics_priority", "u8", 0),
       Field("talk_to_me", "ArtTalkToMe", 0) >>

Poll_fields ==
    << Field("version", "array", 2),
       Field("talk_to_me", "ArtTalkToMe", 0),
       Field("diagnostics_priority", "u8", 0) >>

PollReply_fields ==
    << Field("address", "Ipv4Addr", 0),
       Field("port", "u16", 0),
       Field("version", "array", 2),
       Field("port_address", "array", 2),
       Field("oem", "array", 2),
       Field("ubea_version", "u8", 0),
       Field("status_1", "u8", 0),
       Field("esta_code", "u16", 0),
       Field("short_name", "array", 18),
       Field("long_name", "array", 64),
       Field("node_report", "array", 64),
       Field("num_ports", "array", 2),
       Field("port_types", "array", 4),
       Field("good_input", "array", 4),
       Field("good_output", "array", 4),
       Field("swin", "array", 4),
       Field("swout", "array", 4),
       Field("sw_video", "u8", 0),
       Field("sw_macro", "u8", 0),
       Field("sw_remote", "u8", 0),
       Field("spare", "array", 3),
       Field("style", "u8", 0),
       Field("mac", "array", 6),
       Field("bind_ip", "array", 4),
       Field("bind_index", "u8", 0),
       Field("status_2", "u8", 0),
       Field("filler", "array", 26) >>

\* Mutation: length and port_address declared in the other order.
Output_fields_reordered ==
    << Field("version", "array", 2),
       Field("sequence", "u8", 0),
       Field("physical", "u8", 0),
       Field("length", "BigEndianLength", 0),
       Field("port_address", "PortAddress", 0),
       Field("data", "PaddedData", 0) >>

Output_fields ==
    << Field("version", "array", 2),
       Field("sequence", "u8", 0),
       Field("physical", "u8", 0),
       Field("port_address", "PortAddress", 0),
       Field("length", "BigEndianLength", 0),
       Field("data", "PaddedData", 0) >>

\* The bodies declared in command/sync.rs, command/timecode.rs and
\* command/trigger.rs.  command/mod.rs does not refer to them.
Sync_fields ==
    << Field("version", "array", 2),
       Field("aux1", "u8", 0),
       Field("aux2", "u8", 0) >>

Timecode_fields ==
    << Field("version", "array", 2),
       Field("filler1", "u8", 0),
       Field("stream_id", "u8", 0),
       Field("frames", "u8", 0),
       Field("seconds", "u8", 0),
       Field("minutes", "u8", 0),
       Field("hours", "u8", 0),
       Field("frame_type", "FrameType", 0) >>

Trigger_fields ==
    << Field("version", "array", 2),
       Field("filler1", "u8", 0),
       Field("filler2", "u8", 0),
       Field("oem_hi", "u8", 0),
       Field("oem_lo", "u8", 0),
       Field("key", "TriggerKey", 0),
       Field("sub_key", "u8", 0),
       Field("data", "array", 512) >>

(***************************************************************************)
(* macros.rs: data_structure! generates to_bytes and from for each body    *)
(***************************************************************************)
RECURSIVE to_bytes_step(_, _, _, _, _)
to_bytes_step(name, fields, self, i, result) ==
    IF i > Len(fields) THEN Ok(result)
    ELSE LET w == Convertable_write_to_buffer(fields[i], self[fields[i].name], result, self) IN
         IF w.ok
         THEN to_bytes_step(name, fields, self, i + 1, w.val)
         ELSE Err(SerializeError(<<"Could not serialize field ", name, "::", fields[i].name>>, w.err))

to_bytes(name, fields, self) == to_bytes_step(name, fields, self, 1, <<>>)

RECURSIVE from_step(_, _, _, _, _, _)
from_step(name, fields, data, i, pos, acc) ==
    IF i > Len(fields) THEN Ok(acc)
    ELSE LET r == Convertable_from_cursor(fields[i], data, pos) IN
         IF r.ok
         THEN from_step(name, fields, data, i + 1, r.pos, acc @@ (fields[i].name :> r.val))
         ELSE Err(DeserializeError(<<"Could not deserialize field ", name, "::", fields[i].name>>, r.err))

\* Mutation: a body whose first two bytes are below the supported protocol
\* version is rejected.
from_version_gated(name, fields, data) ==
    IF Len(data) >= 2 /\ 256 * data[1] + data[2] < 14
    THEN Err(DeserializeError(<<"Could not deserialize field ", name, "::", fields[1].name>>,
                              CursorEof))
    ELSE from_step(name, fields, data, 1, 0, <<>>)

\* Mutation: the cause is returned without the context of the field.
from_without_field_context(name, fields, data) ==
    LET r == from_step(name, fields, data, 1, 0, <<>>) IN
    IF r.ok THEN r ELSE Err(r.err.inner)

\* Mutation: bytes left in the cursor after the last field are an error.
from_exact(name, fields, data) ==
    LET r == from_step(name, fields, data, 1, 0, <<>>) IN
    IF r.ok /\ name # "Output" /\ Len(to_bytes(name, fields, r.val).val) < Len(data)
    THEN Err(DeserializeError(<<"Could not deserialize field ", name, "::",
                                fields[Len(fields)].name>>, CursorEof))
    ELSE r

from(name, fields, data) == from_step(name, fields, data, 1, 0, <<>>)

(***************************************************************************)
(* command/mod.rs: the ArtCommand envelope.  A command is a record with    *)
(* its variant and, for Poll, PollReply and Output, its body.              *)
(***************************************************************************)
ARTNET_HEADER == <<65, 114, 116, 45, 78, 101, 116, 0>>

ARTNET_PROTOCOL_VERSION == <<0, 14>>

MIN_BUFFER_LENGTH == 14

Poll(body) == [variant |-> "Poll", body |-> body]

PollReply(body) == [variant |-> "PollReply", body |-> body]

Output(body) == [variant |-> "Output", body |-> body]

Inert(variant) == [variant |-> variant]

\* The arms of opcode_to_enum that build a marker variant, in source order.
opcode_to_enum_markers ==
    << <<\h2300, "DiagData">>, <<\h2400, "Command">>, <<\h5100, "Nzs">>,
       <<\h5200, "Sync">>, <<\h6000, "Address">>, <<\h7000, "Input">>,
       <<\h8000, "TodRequest">>, <<\h8100, "TodData">>, <<\h8200, "TodControl">>,
       <<\h8300, "Rdm">>, <<\h8400, "RdmSub">>, <<\hA010, "VideoSetup">>,
       <<\hA020, "VideoPalette">>, <<\hA040, "VideoData">>, <<\hF000, "MacMaster">>,
       <<\hF100, "MacSlave">>, <<\hF200, "FirmwareMaster">>,
       <<\hF300, "FirmwareReply">>, <<\hF400, "FileTnMaster">>,
       <<\hF500, "FileFnMaster">>, <<\hF600, "FileFnReply">>, <<\hF800, "OpIpProg">>,
       <<\hF900, "OpIpProgReply">>, <<\h9000, "OpMedia">>, <<\h9100, "OpMediaPatch">>,
       <<\h9200, "OpMediaControl">>, <<\h9300, "OpMediaControlReply">>,
       <<\h9700, "OpTimeCode">>, <<\h9800, "OpTimeSync">>, <<\h9900, "OpTrigger">>,
       <<\h9A00, "OpDirectory">>, <<\h9B00, "OpDirectoryReply">> >>

\* The arms of get_opcode for the marker variants, in source order.
get_opcode_markers ==
    << <<"DiagData", \h2300>>, <<"Command", \h2400>>, <<"Nzs", \h5100>>,
       <<"Sync", \h5200>>, <<"Address", \h6000>>, <<"Input", \h7000>>,
       <<"TodRequest", \h8000>>, <<"TodData", \h8100>>, <<"TodControl", \h8200>>,
       <<"Rdm", \h8300>>, <<"RdmSub", \h8400>>, <<"VideoSetup", \hA010>>,
       <<"VideoPalette", \hA020>>, <<"VideoData", \hA040>>, <<"MacMaster", \hF000>>,
       <<"MacSlave", \hF100>>, <<"FirmwareMaster", \hF200>>,
       <<"FirmwareReply", \hF300>>, <<"FileTnMaster", \hF400>>,
       <<"FileFnMaster", \hF500>>, <<"FileFnReply", \hF600>>, <<"OpIpProg", \hF800>>,
       <<"OpIpProgReply", \hF900>>, <<"OpMedia", \h9000>>, <<"OpMediaPatch", \h9100>>,
       <<"OpMediaControl", \h9200>>, <<"OpMediaControlReply", \h9300>>,
       <<"OpTimeCode", \h9700>>, <<"OpTimeSync", \h9800>>, <<"OpTrigger", \h9900>>,
       <<"OpDirectory", \h9A00>>, <<"OpDirectoryReply", \h9B00>> >>

InertVariants == {get_opcode_markers[i][1] : i \in DOMAIN get_opcode_markers}

\* First arm whose pattern matches, as a Rust match does.
FirstMatch(table, key) ==
    CHOOSE i \in DOMAIN table :
        /\ table[i][1] = key
        /\ \A j \in DOMAIN table : table[j][1] = key => i <= j

opcode_to_enum(code, data) ==
    IF code = \h2000
    THEN LET r == from("Poll", Poll_fields, data) IN
         IF r.ok THEN Ok(Poll(r.val)) ELSE Err(OpcodeError("Poll", r.err))
    ELSE IF code = \h2100
    THEN LET r == from("PollReply", PollReply_fields, data) IN
         IF r.ok THEN Ok(PollReply(r.val)) ELSE Err(OpcodeError("PollReply", r.err))
    ELSE IF code = \h5000
    THEN LET r == from("Output", Output_fields, data) IN
         IF r.ok THEN Ok(Output(r.val)) ELSE Err(OpcodeError("Output", r.err))
    ELSE IF \E i \in DOMAIN opcode_to_enum_markers : opcode_to_enum_markers[i][1] = code
    THEN Ok(Inert(opcode_to_enum_markers[FirstMatch(opcode_to_enum_markers, code)][2]))
    ELSE Err(UnknownOpcode(code))

\* Mutation: OpTimeCode is given the opcode of OpTimeSync.
get_opcode_timecode_clash(self) ==
    IF self.variant = "Poll"
    THEN LET r == to_bytes("Poll", Poll_fields, self.body) IN
         IF r.ok THEN Ok(<<\h2000, r.val>>) ELSE r
    ELSE IF self.variant = "PollReply"
    THEN LET r == to_bytes("PollReply", PollReply_fields, self.body) IN
         IF r.ok THEN Ok(<<\h2100, r.val>>) ELSE r
    ELSE IF self.variant = "Output"
    THEN LET r == to_bytes("Output", Output_fields, self.body) IN
         IF r.ok THEN Ok(<<\h5000, r.val>>) ELSE r
    ELSE IF self.variant = "OpTimeCode"
    THEN Ok(<<\h9800, <<>> >>)
    ELSE Ok(<<get_opcode_markers[FirstMatch(get_opcode_markers, self.variant)][2], <<>> >>)

\* Ok carries the pair (opcode, body bytes).
get_opcode(self) ==
    IF self.variant = "Poll"
    THEN LET r == to_bytes("Poll", Poll_fields, self.body) IN
         IF r.ok THEN Ok(<<\h2000, r.val>>) ELSE r
    ELSE IF self.variant = "PollReply"
    THEN LET r == to_bytes("PollReply", PollReply_fields, self.body) IN
         IF r.ok THEN Ok(<<\h2100, r.val>>) ELSE r
    ELSE IF self.variant = "Output"
    THEN LET r == to_bytes("Output", Output_fields, self.body) IN
         IF r.ok THEN Ok(<<\h5000, r.val>>) ELSE r
    ELSE Ok(<<get_opcode_markers[FirstMatch(get_opcode_markers, self.variant)][2], <<>> >>)

\* Mutation: the opcode written most significant byte first.
write_to_buffer_big_endian_opcode(self) ==
    LET r == get_opcode(self) IN
    IF ~r.ok THEN r
    ELSE LET opcode == r.val[1]
             data == r.val[2]
         IN Ok(WriteU16BE(ARTNET_HEADER, opcode) \o data)

\* Mutation: a short encoding is filled with zero bytes up to the minimum
\* length that from_buffer accepts.
write_to_buffer_padded_to_minimum(self) ==
    LET r == get_opcode(self) IN
    IF ~r.ok THEN r
    ELSE LET opcode == r.val[1]
             data == r.val[2]
             result == WriteU16LE(ARTNET_HEADER, opcode) \o data
         IN Ok(IF Len(result) < 14 THEN result \o [i \in 1..(14 - Len(result)) |-> 0]
                                   ELSE result)

write_to_buffer(self) ==
    LET r == get_opcode(self) IN
    IF ~r.ok THEN r
    ELSE LET opcode == r.val[1]
             data == r.val[2]
         IN Ok(WriteU16LE(ARTNET_HEADER, opcode) \o data)

\* Mutation: the terminating NUL of the prefix is not compared.
starts_with_without_last(buffer, prefix) ==
    /\ Len(buffer) >= Len(prefix)
    /\ SubSeq(buffer, 1, Len(prefix) - 1) = SubSeq(prefix, 1, Len(prefix) - 1)

starts_with(buffer, prefix) ==
    /\ Len(buffer) >= Len(prefix)
    /\ SubSeq(buffer, 1, Len(prefix)) = prefix

\* Mutation: the minimum length checked with <= instead of <.
from_buffer_off_by_one(buffer) ==
    IF Len(buffer) <= MIN_BUFFER_LENGTH
    THEN Err(MessageTooShort(buffer, MIN_BUFFER_LENGTH))
    ELSE IF ~starts_with(buffer, ARTNET_HEADER)
    THEN Err(InvalidArtnetHeader(buffer))
    ELSE LET code == Slice(buffer, 8, 10)
             remaining == SliceFrom(buffer, 10)
         IN IF ~code.ok THEN code
            ELSE IF ~remaining.ok THEN remaining
            ELSE opcode_to_enum(code.val[1] + 256 * code.val[2], remaining.val)

\* Mutation: the header checked before the length.
from_buffer_header_first(buffer) ==
    IF ~starts_with(buffer, ARTNET_HEADER)
    THEN Err(InvalidArtnetHeader(buffer))
    ELSE IF Len(buffer) < MIN_BUFFER_LENGTH
    THEN Err(MessageTooShort(buffer, MIN_BUFFER_LENGTH))
    ELSE LET code == Slice(buffer, 8, 10)
             remaining == SliceFrom(buffer, 10)
         IN IF ~code.ok THEN code
            ELSE IF ~remaining.ok THEN remaining
            ELSE opcode_to_enum(code.val[1] + 256 * code.val[2], remaining.val)

\* Mutation: the opcode read most significant byte first.
from_buffer_big_endian_opcode(buffer) ==
    IF Len(buffer) < MIN_BUFFER_LENGTH
    THEN Err(MessageTooShort(buffer, MIN_BUFFER_LENGTH))
    ELSE IF ~starts_with(buffer, ARTNET_HEADER)
    THEN Err(InvalidArtnetHeader(buffer))
    ELSE LET code == Slice(buffer, 8, 10)
             remaining == SliceFrom(buffer, 10)
         IN IF ~code.ok THEN code
            ELSE IF ~remaining.ok THEN remaining
            ELSE opcode_to_enum(256 * code.val[1] + code.val[2], remaining.val)

\* Mutation: the length of the buffer is not checked before it is indexed.
from_buffer_unchecked_length(buffer) ==
    IF ~starts_with(buffer, ARTNET_HEADER)
    THEN Err(InvalidArtnetHeader(buffer))
    ELSE LET code == Slice(buffer, 8, 10)
             remaining == SliceFrom(buffer, 10)
         IN IF ~code.ok THEN code
            ELSE IF ~remaining.ok THEN remaining
            ELSE opcode_to_enum(code.val[1] + 256 * code.val[2], remaining.val)

from_buffer(buffer) ==
    IF Len(buffer) < MIN_BUFFER_LENGTH
    THEN Err(MessageTooShort(buffer, MIN_BUFFER_LENGTH))
    ELSE IF ~starts_with(buffer, ARTNET_HEADER)
    THEN Err(InvalidArtnetHeader(buffer))
    ELSE LET code == Slice(buffer, 8, 10)
             remaining == SliceFrom(buffer, 10)
         IN IF ~code.ok THEN code
            ELSE IF ~remaining.ok THEN remaining
            ELSE opcode_to_enum(code.val[1] + 256 * code.val[2], remaining.val)

(***************************************************************************)
(* Defaults (impl Default for Poll, PollReply, Output)                     *)
(***************************************************************************)
Zeros(n) == [i \in 1..n |-> 0]

Poll_default ==
    [version |-> ARTNET_PROTOCOL_VERSION, talk_to_me |-> NONE, diagnostics_priority |-> \h80]

PollReply_default ==
    [address |-> Zeros(4), port |-> 6454, version |-> Zeros(2), port_address |-> Zeros(2),
     oem |-> Zeros(2), ubea_version |-> 0, status_1 |-> 0, esta_code |-> 0,
     short_name |-> Zeros(18), long_name |-> Zeros(64), node_report |-> Zeros(64),
     num_ports |-> Zeros(2), port_types |-> Zeros(4), good_input |-> Zeros(4),
     good_output |-> Zeros(4), swin |-> Zeros(4), swout |-> Zeros(4), sw_video |-> 0,
     sw_macro |-> 0, sw_remote |-> 0, spare |-> Zeros(3), style |-> 0, mac |-> Zeros(6),
     bind_ip |-> Zeros(4), bind_index |-> 0, status_2 |-> 0, filler |-> Zeros(26)]

Output_default ==
    [version |-> ARTNET_PROTOCOL_VERSION, sequence |-> 0, physical |-> 0,
     port_address |-> PortAddress_from_u8(1), length |-> BigEndianLength_default,
     data |-> <<>>]

(***************************************************************************)
(* Bounds and the inputs drawn by the callers                              *)
(***************************************************************************)
\* Payloads up to this length are drawn with every content over DataBytes.
MaxDataLen == 3

\* Received buffers are cut at every length up to this one (and left whole).
MaxCut == 20

DataBytes == {0, 1, 255}

\* Payload lengths around the 512-byte limit, drawn with uniform content.
LimitLens == {MAX_DATA_LEN - 1, MAX_DATA_LEN, MAX_DATA_LEN + 1}

Fill(n, x) == [i \in 1..n |-> x]

\* n distinct-looking bytes starting at seed: seed, seed+1, ... modulo 256.
Ramp(n, seed) == [i \in 1..n |-> (seed + i - 1) % 256]

DataInputs ==
    UNION {[1..n -> DataBytes] : n \in 0..MaxDataLen}
        \cup {Fill(n, x) : n \in LimitLens, x \in {128, 255}}

Versions == {ARTNET_PROTOCOL_VERSION, <<0, 0>>, <<1, 2>>}

TalkToMeInputs ==
    {e + u + g + c : e \in {NONE, ENABLE_VLC}, u \in {NONE, UNICAST_DIAGNOSTICS},
                     g \in {NONE, ENABLE_DIAGNOSTICS}, c \in {NONE, EMIT_CHANGES}}

PriorityInputs == {\h80, 0, 255}

U8Inputs == {0, 1, 255}

U16Inputs == {0, 256, 32767, 32768, 65535}

I32Inputs == {-1000, -1, 0, 3000, 32767, 32768, 65537}

\* A PollReply whose every field holds bytes of its own.
PollReply_patterned ==
    [address |-> <<1, 2, 3, 4>>, port |-> \h1234, version |-> <<0, 14>>,
     port_address |-> <<5, 6>>, oem |-> <<7, 8>>, ubea_version |-> 9, status_1 |-> 10,
     esta_code |-> \hABCD, short_name |-> Ramp(18, 20), long_name |-> Ramp(64, 40),
     node_report |-> Ramp(64, 110), num_ports |-> <<0, 4>>, port_types |-> Ramp(4, 180),
     good_input |-> Ramp(4, 185), good_output |-> Ramp(4, 190), swin |-> Ramp(4, 195),
     swout |-> Ramp(4, 200), sw_video |-> 11, sw_macro |-> 12, sw_remote |-> 13,
     spare |-> <<14, 15, 16>>, style |-> 17, mac |-> Ramp(6, 210), bind_ip |-> Ramp(4, 220),
     bind_index |-> 18, status_2 |-> 19, filler |-> Ramp(26, 225)]

PollReplyInputs ==
    {[base EXCEPT !.port = p, !.address = a] :
        base \in {PollReply_default, PollReply_patterned},
        p \in {6454, 0, 65535}, a \in {Zeros(4), <<192, 168, 1, 255>>}}

\* Buffers as they arrive from the network: header, opcode, body, cut short.
Frame(header, opcode, body) == WriteU16LE(header, opcode) \o body

BadHeaders == {<<65, 114, 116, 45, 78, 101, 116, 1>>, <<97, 114, 116, 45, 78, 101, 116, 0>>}

UnknownOpcodes == {0, \h0050, \h1234, \h2001, \hFFFF}

KnownOpcodes ==
    {\h2000, \h2100, \h5000}
        \cup {opcode_to_enum_markers[i][1] : i \in DOMAIN opcode_to_enum_markers}

OutputBodies ==
    {ver \o <<0, 0>> \o WriteU16LE(<<>>, port) \o len \o data :
        ver \in {ARTNET_PROTOCOL_VERSION, <<0, 0>>},
        port \in {1, 32767, 32768, 32769, 65535},
        len \in {<<0, 2>>, <<2, 0>>, <<255, 255>>},
        data \in {<<>>, <<255>>, <<255, 255>>, <<1, 0, 255>>}}

\* Output bodies with payloads at and above the 512-byte limit.
LongOutputBodies ==
    {ARTNET_PROTOCOL_VERSION \o <<0, 0>> \o WriteU16LE(<<>>, 1) \o <<2, 0>> \o Fill(n, 7) :
        n \in {MAX_DATA_LEN, MAX_DATA_LEN + 1}}

PollBodies ==
    {ver \o <<talk, 128>> \o extra :
        ver \in {ARTNET_PROTOCOL_VERSION, <<0, 0>>},
        talk \in {0, 1, 6, 30, 255},
        extra \in {<<>>, <<9>>, <<9, 9>>}}

PollReplyBodies ==
    {Ramp(n, seed) : n \in {228, 229, 230}, seed \in {0, 1}} \cup {Zeros(229)}

GenericBodies == {<<>>, <<0, 14, 0, 0>>, <<1, 2, 3, 4, 5>>}

Frames ==
    {Frame(ARTNET_HEADER, \h5000, body) : body \in OutputBodies \cup LongOutputBodies}
        \cup {Frame(ARTNET_HEADER, \h2000, body) : body \in PollBodies}
        \cup {Frame(ARTNET_HEADER, \h2100, body) : body \in PollReplyBodies}
        \cup {Frame(ARTNET_HEADER, op, body) :
                op \in KnownOpcodes \cup UnknownOpcodes, body \in GenericBodies}
        \cup {Frame(h, op, body) :
                h \in BadHeaders, op \in {\h2000, \h5000, \h2300, \h1234},
                body \in GenericBodies}

CutPoints(frame) == {k \in 0..Len(frame) : k <= MaxCut \/ k = Len(frame)}

(***************************************************************************)
(* The callers: a sender builds a command and encodes it, a receiver       *)
(* decodes a buffer and may send the decoded command on.                   *)
(***************************************************************************)
NotCalled == Err([kind |-> "NotCalled"])

NoCommand == [variant |-> "NoCommand"]

NoConversion == [op |-> "none", input |-> 0, res |-> NotCalled, back |-> NotCalled]

NotEncoded == [impl |-> "none"]

\* Every value of a byte.
Bytes == 0..255

Init ==
    /\ pc = "start"
    /\ src = "none"
    /\ pa = [op |-> "From<u8>", input |-> 1, res |-> Ok(PortAddress_from_u8(1))]
    /\ conv = NoConversion
    /\ enc = NotEncoded
    /\ v = NoCommand
    /\ b = NotCalled
    /\ d = NotCalled
    /\ b2 = NotCalled

SetPortAddress(op, value, res) ==
    /\ pa' = [op |-> op, input |-> value, res |-> res]
    /\ pc' = "addr"
    /\ UNCHANGED <<enc, conv, src, v, b, d, b2>>

FromU8 ==
    /\ pc = "start"
    /\ \E value \in U8Inputs :
          SetPortAddress("From<u8>", value, Ok(PortAddress_from_u8(value)))

TryFromU16 ==
    /\ pc = "start"
    /\ \E value \in U16Inputs :
          SetPortAddress("TryFrom<u16>", value, PortAddress_try_from_u16(value))

TryFromI32 ==
    /\ pc = "start"
    /\ \E value \in I32Inputs :
          SetPortAddress("TryFrom<i32>", value, PortAddress_try_from_i32(value))

\* A field type read from a one-byte cursor, and the value read written to
\* an empty buffer.
SetConversion(op, byte, res, back) ==
    /\ conv' = [op |-> op, input |-> byte, res |-> res, back |-> back]
    /\ pc' = "converted"
    /\ UNCHANGED <<enc, src, pa, v, b, d, b2>>

ConvertTalkToMe ==
    /\ pc = "start"
    /\ \E byte \in Bytes :
          LET res == ArtTalkToMe_from_cursor(<<byte>>, 0) IN
          SetConversion("ArtTalkToMe", byte, res,
                        IF res.ok THEN ArtTalkToMe_write_to_buffer(res.val, <<>>)
                                  ELSE NotCalled)

ConvertTriggerKey ==
    /\ pc = "start"
    /\ \E byte \in Bytes :
          LET res == TriggerKey_try_from(byte) IN
          SetConversion("TriggerKey", byte, res,
                        IF res.ok THEN Ok(<<TriggerKey_into_u8(res.val)>>) ELSE NotCalled)

ConvertFrameType ==
    /\ pc = "start"
    /\ \E byte \in Bytes :
          LET res == FrameType_from_cursor(<<byte>>, 0) IN
          SetConversion("FrameType", byte, res,
                        IF res.ok THEN FrameType_write_to_buffer(res.val, <<>>)
                                  ELSE NotCalled)

Build(command) ==
    /\ v' = command
    /\ src' = "caller"
    /\ pc' = "built"
    /\ UNCHANGED <<enc, conv, pa, b, d, b2>>

BuildPoll ==
    /\ pc = "start"
    /\ \E version \in Versions, talk_to_me \in TalkToMeInputs,
          diagnostics_priority \in PriorityInputs :
          Build(Poll([Poll_default EXCEPT !.version = version,
                                          !.talk_to_me = talk_to_me,
                                          !.diagnostics_priority = diagnostics_priority]))

BuildPollReply ==
    /\ pc = "start"
    /\ \E reply \in PollReplyInputs : Build(PollReply(reply))

\* The port address of an Output is a PortAddress the caller constructed.
BuildOutput ==
    /\ pc \in {"start", "addr"}
    /\ pa.res.ok
    /\ \E version \in Versions, sequence \in {0, 255}, physical \in {0, 3},
          data \in DataInputs :
          Build(Output([Output_default EXCEPT !.version = version,
                                              !.sequence = sequence,
                                              !.physical = physical,
                                              !.port_address = pa.res.val,
                                              !.data = data]))

BuildInert ==
    /\ pc = "start"
    /\ \E variant \in InertVariants : Build(Inert(variant))

Receive ==
    /\ pc = "start"
    /\ \E frame \in Frames : \E k \in CutPoints(frame) :
          /\ b' = Ok(SubSeq(frame, 1, k))
          /\ src' = "network"
          /\ pc' = "encoded"
          /\ UNCHANGED <<enc, conv, pa, v, d, b2>>

\* The caller keeps the Output and encodes its data twice into a buffer that
\* holds the fields written before it.  Both definitions of PaddedData that
\* the repository holds are drawn.
EncodeDataTwice ==
    /\ pc = "built"
    /\ v.variant = "Output"
    /\ \E impl \in {"output/mod.rs", "output.rs"} :
          LET prefix == v.body.version \o <<v.body.sequence, v.body.physical>>
              call(self) == IF impl = "output.rs"
                            THEN PaddedData_into_buffer_call(self, prefix)
                            ELSE PaddedData_write_to_buffer_call(self, prefix)
              first == call(v.body.data)
          IN enc' = [impl |-> impl, before |-> v.body.data, prefix |-> prefix,
                     first |-> first, second |-> call(first.inner)]
    /\ pc' = "encoded_twice"
    /\ UNCHANGED <<src, pa, conv, v, b, d, b2>>

WriteToBuffer ==
    /\ pc = "built"
    /\ b' = write_to_buffer(v)
    /\ pc' = "encoded"
    /\ UNCHANGED <<enc, conv, src, pa, v, d, b2>>

FromBuffer ==
    /\ pc = "encoded"
    /\ b.ok
    /\ d' = from_buffer(b.val)
    /\ pc' = "decoded"
    /\ UNCHANGED <<enc, conv, src, pa, v, b, b2>>

ReEncode ==
    /\ pc = "decoded"
    /\ d.ok
    /\ b2' = write_to_buffer(d.val)
    /\ pc' = "reencoded"
    /\ UNCHANGED <<enc, conv, src, pa, v, b, d>>

Reset ==
    /\ pc # "start"
    /\ pc' = "start"
    /\ src' = "none"
    /\ pa' = [op |-> "From<u8>", input |-> 1, res |-> Ok(PortAddress_from_u8(1))]
    /\ conv' = NoConversion
    /\ enc' = NotEncoded
    /\ v' = NoCommand
    /\ b' = NotCalled
    /\ d' = NotCalled
    /\ b2' = NotCalled

Next ==
    \/ FromU8
    \/ TryFromU16
    \/ TryFromI32
    \/ ConvertTalkToMe
    \/ ConvertTriggerKey
    \/ ConvertFrameType
    \/ BuildPoll
    \/ BuildPollReply
    \/ BuildOutput
    \/ BuildInert
    \/ Receive
    \/ EncodeDataTwice
    \/ WriteToBuffer
    \/ FromBuffer
    \/ ReEncode
    \/ Reset

Spec == Init /\ [][Next]_vars

(***************************************************************************)
(* Properties                                                              *)
(***************************************************************************)
BodyVariants == {"Poll", "PollReply", "Output"}

\* b holds the bytes write_to_buffer returned for v.
Encoded == pc \in {"encoded", "decoded", "reencoded"} /\ src = "caller"

\* d holds what from_buffer returned for the bytes write_to_buffer returned for v.
RoundTripped == pc \in {"decoded", "reencoded"} /\ src = "caller"

\* d holds what from_buffer returned for the buffer b.val, whatever its origin.
Decoded == pc \in {"decoded", "reencoded"}

RECURSIVE RootCause(_)
RootCause(e) == IF "inner" \in DOMAIN e THEN RootCause(e.inner) ELSE e

RoundedUp(n) == n + (n % 2)

Padded(data) == IF Len(data) % 2 = 1 THEN data \o <<0>> ELSE data

MarkerCodes(variant) ==
    {opcode_to_enum_markers[i][1] :
        i \in {j \in DOMAIN opcode_to_enum_markers : opcode_to_enum_markers[j][2] = variant}}

\* C3 as stated: an inert variant encodes to header and opcode with no body
\* bytes, and decoding exactly those bytes succeeds with the same variant.
C3_InertRoundTrip ==
    (RoundTripped /\ v.variant \in InertVariants) =>
        /\ \E code \in MarkerCodes(v.variant) : b.val = Frame(ARTNET_HEADER, code, <<>>)
        /\ d.ok
        /\ d.val = v

\* C3 as amended: an inert variant encodes to header and opcode with no body
\* bytes (10 bytes); decoding exactly those bytes fails with MessageTooShort;
\* decoding those bytes followed by at least 4 more bytes gives the variant.
C3_InertEncodeDecode ==
    /\ (Encoded /\ v.variant \in InertVariants) =>
          /\ b.ok
          /\ Len(b.val) = 10
          /\ \E code \in MarkerCodes(v.variant) : b.val = Frame(ARTNET_HEADER, code, <<>>)
    /\ (RoundTripped /\ v.variant \in InertVariants) =>
          ~d.ok /\ d.err.kind = "MessageTooShort"
    /\ \A variant \in InertVariants :
          (/\ Decoded
           /\ Len(b.val) >= 14
           /\ SubSeq(b.val, 1, 10) = write_to_buffer(Inert(variant)).val)
              => d.ok /\ d.val = Inert(variant)

C3_Witness ==
    /\ RoundTripped
    /\ v.variant \in InertVariants
    /\ Len(b.val) = 10
    /\ ~d.ok

\* C4: encoding an Output with n data bytes fails, with a message-size error,
\* exactly when n = 0 or n > 512, and succeeds for every n in 1..512.
C4_OutputLengthCheck ==
    /\ (Encoded /\ v.variant = "Output") =>
          LET n == Len(v.body.data) IN
          /\ b.ok <=> (1 <= n /\ n <= 512)
          /\ ~b.ok <=> (n = 0 \/ n > 512)
          /\ ~b.ok => RootCause(b.err).kind = "MessageSizeInvalid"
    /\ (pc = "reencoded" /\ d.val.variant = "Output") =>
          LET n == Len(d.val.body.data) IN
          /\ b2.ok <=> (1 <= n /\ n <= 512)
          /\ ~b2.ok => RootCause(b2.err).kind = "MessageSizeInvalid"

C4_Witness ==
    /\ Encoded
    /\ v.variant = "Output"
    /\ Len(v.body.data) = 513
    /\ ~b.ok
    /\ RootCause(b.err).kind = "MessageSizeInvalid"

\* C5: the data bytes of an encoded Output are the original n bytes in order,
\* then one 0x00 when n is odd and nothing when n is even, so their number is
\* n rounded up to even and lies in 2..512.
C5_PaddedPayload ==
    (Encoded /\ v.variant = "Output" /\ b.ok) =>
        LET n == Len(v.body.data)
            payload == SubSeq(b.val, 19, Len(b.val))
        IN /\ SubSeq(payload, 1, n) = v.body.data
           /\ n % 2 = 1 => (Len(payload) = n + 1 /\ payload[n + 1] = 0)
           /\ n % 2 = 0 => Len(payload) = n
           /\ Len(payload) = RoundedUp(n)
           /\ Len(payload) % 2 = 0
           /\ 2 <= Len(payload) /\ Len(payload) <= 512

C5_Witness ==
    /\ Encoded
    /\ v.variant = "Output"
    /\ b.ok
    /\ Len(v.body.data) = 511
    /\ Len(b.val) = 18 + 512

\* An Output-shaped buffer: a valid header followed by the opcode 0x5000.
OutputShaped(buffer) ==
    /\ Len(buffer) >= 10
    /\ starts_with(buffer, ARTNET_HEADER)
    /\ buffer[9] = 0
    /\ buffer[10] = 80

\* The bytes at offsets 16..17 of an encoded Output are the big-endian value of
\* the data length n rounded up to even, which is the number of bytes after them.
LengthBytesComputed(buffer, n) ==
    /\ Len(buffer) >= 18
    /\ buffer[17] = RoundedUp(n) \div 256
    /\ buffer[18] = RoundedUp(n) % 256
    /\ 256 * buffer[17] + buffer[18] = Len(buffer) - 18

C7_OutputLayout ==
    (Encoded /\ v.variant = "Output" /\ b.ok) =>
        LET o == v.body
            r == RoundedUp(Len(o.data))
        IN /\ b.val = <<65, 114, 116, 45, 78, 101, 116, 0>> \o <<0, 80>> \o o.version
                        \o <<o.sequence>> \o <<o.physical>>
                        \o <<o.port_address % 256, o.port_address \div 256>>
                        \o <<r \div 256, r % 256>> \o Padded(o.data)
           /\ o = [Output_default EXCEPT !.data = <<255>>] =>
                 b.val = <<65, 114, 116, 45, 78, 101, 116, 0, 0, 80, 0, 14, 0, 0, 1, 0,
                           0, 2, 255, 0>>

C7_Witness ==
    /\ Encoded
    /\ v = Output([Output_default EXCEPT !.data = <<255>>])
    /\ b.ok
    /\ Len(b.val) = 20

\* Every PortAddress the state holds.
PortAddresses ==
    (IF pa.res.ok THEN {pa.res.val} ELSE {})
        \cup (IF v.variant = "Output" THEN {v.body.port_address} ELSE {})
        \cup (IF d.ok /\ d.val.variant = "Output" THEN {d.val.body.port_address} ELSE {})

\* C8: From<u8> always succeeds; TryFrom<u16> and TryFrom<i32> succeed exactly
\* when 0 <= value <= 32767 and fail with a range error otherwise; on success
\* the stored value is the input; no PortAddress outside 0..32767 exists.
C8_PortAddressBounds ==
    /\ pa.op = "From<u8>" => pa.res.ok
    /\ pa.op \in {"TryFrom<u16>", "TryFrom<i32>"} =>
          /\ pa.res.ok <=> (0 <= pa.input /\ pa.input <= 32767)
          /\ ~pa.res.ok => pa.res.err.kind = "InvalidPortAddress"
    /\ pa.res.ok => pa.res.val = pa.input
    /\ \A p \in PortAddresses : 0 <= p /\ p <= 32767

C8_Witness ==
    /\ pa.op = "TryFrom<i32>"
    /\ pa.input = 32768
    /\ ~pa.res.ok

\* The little-endian value of the port-address bytes at offsets 14..15.
WirePortAddress(buffer) == buffer[15] + 256 * buffer[16]

\* C9: decoding an Output-shaped buffer whose port-address bytes represent a
\* value above 32767 fails; a decoded Output holds the wire value unchanged.
C9_PortAddressDecode ==
    /\ (Decoded /\ OutputShaped(b.val) /\ Len(b.val) >= 16
            /\ WirePortAddress(b.val) > 32767) =>
          /\ ~d.ok
          /\ RootCause(d.err).kind = "InvalidPortAddress"
    /\ (Decoded /\ d.ok /\ d.val.variant = "Output") =>
          d.val.body.port_address = WirePortAddress(b.val)

C9_Witness ==
    /\ Decoded
    /\ OutputShaped(b.val)
    /\ Len(b.val) = 20
    /\ WirePortAddress(b.val) = 32768
    /\ ~d.ok

\* C10: from_buffer fails with MessageTooShort (min_len 14) for every buffer
\* of fewer than 14 bytes, also when the buffer's header is wrong.
C10_TooShort ==
    (Decoded /\ Len(b.val) < 14) =>
        /\ ~d.ok
        /\ d.err.kind = "MessageTooShort"
        /\ d.err.min_len = 14
        /\ d.err.message = b.val

\* A buffer of 8..13 bytes with a wrong header has been decoded.
C10_Witness ==
    /\ Decoded
    /\ Len(b.val) < 14
    /\ Len(b.val) >= 8
    /\ ~starts_with(b.val, ARTNET_HEADER)
    /\ d.err.kind = "MessageTooShort"

\* The opcode a buffer carries at offsets 8..9, least significant byte first.
WireOpcode(buffer) == buffer[9] + 256 * buffer[10]

\* C11: a buffer of at least 14 bytes whose first 8 bytes are not exactly
\* "Art-Net\0" is rejected with the invalid-header error carrying the
\* buffer, whatever its opcode and body; no command is returned.
C11_InvalidHeader ==
    (Decoded /\ Len(b.val) >= 14 /\ SubSeq(b.val, 1, 8) # ARTNET_HEADER)
        => /\ ~d.ok
           /\ d.err = [kind |-> "InvalidArtnetHeader", message |-> b.val]

C11_Witness ==
    /\ Decoded
    /\ Len(b.val) >= 14
    /\ SubSeq(b.val, 1, 7) = SubSeq(ARTNET_HEADER, 1, 7)
    /\ b.val[8] # 0
    /\ WireOpcode(b.val) = \h5000
    /\ ~d.ok
    /\ d.err.kind = "InvalidArtnetHeader"

\* C12: for a buffer of at least 14 bytes with a valid header, the opcode is
\* the little-endian 16-bit value of the bytes at offsets 8..9; when that
\* value is not in the opcode table, from_buffer fails with UnknownOpcode
\* carrying that value, and a command is returned only for a value in the table.
C12_UnknownOpcode ==
    (Decoded /\ Len(b.val) >= 14 /\ SubSeq(b.val, 1, 8) = ARTNET_HEADER) =>
        /\ WireOpcode(b.val) \notin KnownOpcodes =>
              /\ ~d.ok
              /\ d.err = [kind |-> "UnknownOpcode", code |-> WireOpcode(b.val)]
        /\ d.ok => WireOpcode(b.val) \in KnownOpcodes
        /\ (~d.ok /\ d.err.kind = "UnknownOpcode") => WireOpcode(b.val) \notin KnownOpcodes

C12_Witness ==
    /\ Decoded
    /\ Len(b.val) >= 14
    /\ SubSeq(b.val, 1, 8) = ARTNET_HEADER
    /\ b.val[9] = \h50
    /\ b.val[10] = 0
    /\ ~d.ok
    /\ d.err = [kind |-> "UnknownOpcode", code |-> \h0050]

\* The opcode the protocol assigns to a variant, read from the decoding table.
OpcodeOf(variant) ==
    CASE variant = "Poll" -> \h2000
      [] variant = "PollReply" -> \h2100
      [] variant = "Output" -> \h5000
      [] OTHER -> CHOOSE code \in MarkerCodes(variant) : TRUE

\* The envelope of an encoded command: the 8 header bytes, the opcode of the
\* variant at offsets 8..9 least significant byte first, the body from offset 10.
Enveloped(command, buffer) ==
    /\ Len(buffer) >= 10
    /\ SubSeq(buffer, 1, 8) = <<65, 114, 116, 45, 78, 101, 116, 0>>
    /\ buffer[9] = OpcodeOf(command.variant) % 256
    /\ buffer[10] = OpcodeOf(command.variant) \div 256
    /\ LET body == SubSeq(buffer, 11, Len(buffer)) IN
       CASE command.variant = "Poll" ->
                body = command.body.version
                         \o <<command.body.talk_to_me, command.body.diagnostics_priority>>
         [] command.variant = "Output" ->
                /\ Len(body) = 8 + RoundedUp(Len(command.body.data))
                /\ SubSeq(body, 1, 4) =
                      command.body.version \o <<command.body.sequence, command.body.physical>>
                /\ SubSeq(body, 9, 8 + Len(command.body.data)) = command.body.data
         [] command.variant = "PollReply" ->
                /\ Len(body) = 229
                /\ SubSeq(body, 1, 4) = command.body.address
                /\ SubSeq(body, 204, 229) = command.body.filler
         [] OTHER -> body = <<>>

\* C13: every buffer a successful write_to_buffer returns, for every variant,
\* begins with the 8 header bytes followed at offsets 8..9 by the opcode of
\* that variant, least significant byte first, and the body bytes (none for
\* an inert variant) begin at offset 10.
C13_Envelope ==
    /\ (Encoded /\ b.ok) => Enveloped(v, b.val)
    /\ (pc = "reencoded" /\ b2.ok) => Enveloped(d.val, b2.val)

C13_Witness ==
    /\ Encoded
    /\ v.variant = "Output"
    /\ Len(v.body.data) = 3
    /\ b.ok
    /\ b.val[9] = 0
    /\ b.val[10] = \h50
    /\ Len(b.val) = 22

\* The opcodes get_opcode assigns: one row per variant.
EncodingTable ==
    {<<"Poll", \h2000>>, <<"PollReply", \h2100>>, <<"Output", \h5000>>}
        \cup {get_opcode_markers[i] : i \in DOMAIN get_opcode_markers}

\* C14: the opcode table is a bijection.  get_opcode gives distinct variants
\* distinct opcodes; the opcode written for a variant, handed to
\* opcode_to_enum with the body written for it, gives that variant back; a
\* decoded command is written under the opcode it was decoded from; and
\* Poll, PollReply, Output, Sync, time code and trigger have the opcodes
\* 0x2000, 0x2100, 0x5000, 0x5200, 0x9700 and 0x9900.
C14_OpcodeBijection ==
    /\ \A r1 \in EncodingTable, r2 \in EncodingTable :
          (r1[1] = r2[1]) <=> (r1[2] = r2[2])
    /\ (Encoded /\ b.ok) =>
          LET back == opcode_to_enum(WireOpcode(b.val), SubSeq(b.val, 11, Len(b.val))) IN
          /\ <<v.variant, WireOpcode(b.val)>> \in EncodingTable
          /\ back.ok
          /\ back.val.variant = v.variant
          /\ v.variant = "Poll" => WireOpcode(b.val) = \h2000
          /\ v.variant = "PollReply" => WireOpcode(b.val) = \h2100
          /\ v.variant = "Output" => WireOpcode(b.val) = \h5000
          /\ v.variant = "Sync" => WireOpcode(b.val) = \h5200
          /\ v.variant = "OpTimeCode" => WireOpcode(b.val) = \h9700
          /\ v.variant = "OpTrigger" => WireOpcode(b.val) = \h9900
    /\ (pc = "reencoded" /\ b2.ok) => WireOpcode(b2.val) = WireOpcode(b.val)

C14_Witness ==
    /\ pc = "encoded"
    /\ src = "caller"
    /\ v.variant = "OpTimeCode"
    /\ b.ok
    /\ WireOpcode(b.val) = \h9700
    /\ opcode_to_enum(\h9700, <<>>) = Ok(v)

\* The body a received buffer carries from offset 10.
WireBody(buffer) == SubSeq(buffer, 11, Len(buffer))

\* from_buffer answered the buffer with a command holding the body that the
\* body codec `name` reads from the bytes after the opcode.
DispatchedTo(name, fields) ==
    LET body == from(name, fields, WireBody(b.val)) IN
    body.ok =>
        /\ d.ok
        /\ "body" \in DOMAIN d.val
        /\ d.val.body = body.val

\* C15: Sync (0x5200), Timecode (0x9700) and Trigger (0x9900) carry typed
\* bodies.  from_buffer dispatches a buffer with one of these opcodes to the
\* Sync, Timecode or Trigger body codec and returns a command holding the
\* decoded body; write_to_buffer writes the body's fields after the opcode
\* (4 bytes for Sync, 9 for Timecode, 520 for Trigger).
C15_TypedBodies ==
    /\ (Decoded /\ Len(b.val) >= 14 /\ SubSeq(b.val, 1, 8) = ARTNET_HEADER) =>
          /\ WireOpcode(b.val) = \h5200 => DispatchedTo("Sync", Sync_fields)
          /\ WireOpcode(b.val) = \h9700 => DispatchedTo("Timecode", Timecode_fields)
          /\ WireOpcode(b.val) = \h9900 => DispatchedTo("Trigger", Trigger_fields)
    /\ (Encoded /\ b.ok) =>
          /\ WireOpcode(b.val) = \h5200 => Len(WireBody(b.val)) = 4
          /\ WireOpcode(b.val) = \h9700 => Len(WireBody(b.val)) = 9
          /\ WireOpcode(b.val) = \h9900 => Len(WireBody(b.val)) = 520

\* C16: the protocol version is informational.  A Poll-shaped buffer, and an
\* Output-shaped buffer that is valid apart from its version bytes, decodes
\* for every value of the two version bytes at offsets 10..11, values below
\* [0, 14] included, and the decoded version holds exactly those two bytes.
C16_VersionInformational ==
    (Decoded /\ Len(b.val) >= 14 /\ SubSeq(b.val, 1, 8) = ARTNET_HEADER) =>
        /\ WireOpcode(b.val) = \h2000 =>
              /\ d.ok
              /\ d.val.variant = "Poll"
              /\ d.val.body.version = <<b.val[11], b.val[12]>>
        /\ ( /\ WireOpcode(b.val) = \h5000
             /\ Len(b.val) >= 18
             /\ WirePortAddress(b.val) <= PORT_ADDRESS_MAX ) =>
              /\ d.ok
              /\ d.val.variant = "Output"
              /\ d.val.body.version = <<b.val[11], b.val[12]>>

C16_Witness ==
    /\ Decoded
    /\ src = "network"
    /\ Len(b.val) >= 18
    /\ WireOpcode(b.val) = \h5000
    /\ <<b.val[11], b.val[12]>> = <<0, 0>>
    /\ d.ok
    /\ d.val.variant = "Output"
    /\ d.val.body.version = <<0, 0>>

\* byte AND 0b0001_1110, computed from the digits of the byte.
KnownFlagBits(byte) == 2 * ((byte \div 2) % 16)

\* C17: decoding the TalkToMe byte never fails.  For every byte the decoded
\* flag set has the bits of byte AND 0b0001_1110 (unknown bits are dropped),
\* encoding writes the bits of the flag set as one byte unchanged, and so
\* decoding then encoding a byte gives byte AND 0b0001_1110.
C17_TalkToMeTruncates ==
    /\ (pc = "converted" /\ conv.op = "ArtTalkToMe") =>
          /\ conv.res.ok
          /\ conv.res.val = KnownFlagBits(conv.input)
          /\ conv.back = Ok(<<KnownFlagBits(conv.input)>>)
    /\ (Encoded /\ v.variant = "Poll") =>
          /\ b.ok
          /\ b.val[13] = v.body.talk_to_me
    /\ ( /\ Decoded
         /\ Len(b.val) >= 14
         /\ SubSeq(b.val, 1, 8) = ARTNET_HEADER
         /\ WireOpcode(b.val) = \h2000 ) =>
          /\ d.ok
          /\ d.val.body.talk_to_me = KnownFlagBits(b.val[13])
          /\ pc = "reencoded" => (b2.ok /\ b2.val[13] = KnownFlagBits(b.val[13]))

C17_Witness ==
    /\ pc = "converted"
    /\ conv.op = "ArtTalkToMe"
    /\ conv.input = \hE7
    /\ conv.res = [ok |-> TRUE, val |-> 6, pos |-> 1]
    /\ conv.back = Ok(<<6>>)

\* C18: TriggerKey::try_from succeeds for every byte: 0, 1, 2, 3 give Ascii,
\* Macro, Soft, Show and every other byte gives Undefined holding that byte;
\* converting the key back to a byte gives the byte it came from.
C18_TriggerKeyTotal ==
    (pc = "converted" /\ conv.op = "TriggerKey") =>
        /\ conv.res.ok
        /\ conv.input = 0 => conv.res.val = [key |-> "Ascii"]
        /\ conv.input = 1 => conv.res.val = [key |-> "Macro"]
        /\ conv.input = 2 => conv.res.val = [key |-> "Soft"]
        /\ conv.input = 3 => conv.res.val = [key |-> "Show"]
        /\ conv.input > 3 => conv.res.val = [key |-> "Undefined", other |-> conv.input]
        /\ conv.back = Ok(<<conv.input>>)

C18_Witness ==
    /\ pc = "converted"
    /\ conv.op = "TriggerKey"
    /\ conv.input = 200
    /\ conv.res = Ok([key |-> "Undefined", other |-> 200])
    /\ conv.back = Ok(<<200>>)

\* C19: reading a FrameType from a byte succeeds exactly for 0, 1, 2, 3
\* (Film, EBU, DF, SMPTE) and fails with a decode error naming the byte for
\* 4..255, no default being substituted; writing a FrameType gives the byte
\* it was read from.
C19_FrameTypePartial ==
    (pc = "converted" /\ conv.op = "FrameType") =>
        /\ conv.res.ok <=> conv.input \in 0..3
        /\ conv.input = 0 => conv.res.val = "Film"
        /\ conv.input = 1 => conv.res.val = "EBU"
        /\ conv.input = 2 => conv.res.val = "DF"
        /\ conv.input = 3 => conv.res.val = "SMPTE"
        /\ conv.res.ok => conv.back = Ok(<<conv.input>>)
        /\ ~conv.res.ok =>
              conv.res.err = [kind |-> "InvalidTimecodeFrameType", value |-> conv.input]

C19_Witness ==
    /\ pc = "converted"
    /\ conv.op = "FrameType"
    /\ conv.input = 4
    /\ ~conv.res.ok
    /\ conv.res.err.kind = "InvalidTimecodeFrameType"

\* The errors from_buffer can return, and the errors at the bottom of them.
FromBufferErrors == {"MessageTooShort", "InvalidArtnetHeader", "UnknownOpcode", "OpcodeError"}

RootErrors ==
    {"MessageTooShort", "InvalidArtnetHeader", "UnknownOpcode", "CursorEof",
     "InvalidPortAddress"}

\* C20: from_buffer is total.  For every buffer it returns a command or one
\* of its typed errors and never panics; what it decodes lies inside the
\* buffer; and a body with too few bytes for a field gives an error whose
\* cause is CursorEof.
C20_Total ==
    Decoded =>
        /\ d.ok => d.val.variant \in BodyVariants \cup InertVariants
        /\ ~d.ok =>
              /\ d.err.kind \in FromBufferErrors
              /\ RootCause(d.err).kind \in RootErrors
        /\ (d.ok /\ d.val.variant = "Output") =>
              Len(d.val.body.data) = Len(b.val) - 18
        /\ ( /\ Len(b.val) >= 14
             /\ SubSeq(b.val, 1, 8) = ARTNET_HEADER
             /\ \/ WireOpcode(b.val) = \h2100 /\ Len(b.val) < 10 + 229
                \/ WireOpcode(b.val) = \h5000 /\ Len(b.val) < 16
                \/ /\ WireOpcode(b.val) = \h5000
                   /\ Len(b.val) < 18
                   /\ WirePortAddress(b.val) <= PORT_ADDRESS_MAX ) =>
              /\ ~d.ok
              /\ d.err.kind = "OpcodeError"
              /\ d.err.inner.kind = "DeserializeError"
              /\ d.err.inner.inner = [kind |-> "CursorEof"]

C20_Witness ==
    /\ Decoded
    /\ src = "network"
    /\ Len(b.val) = 17
    /\ SubSeq(b.val, 1, 8) = ARTNET_HEADER
    /\ WireOpcode(b.val) = \h5000
    /\ ~d.ok
    /\ RootCause(d.err) = [kind |-> "CursorEof"]

\* C21: encoding does not mutate the command.  After the data of an Output
\* was encoded it holds the same bytes and the same length as before, also
\* when the length is odd and a padding byte was written, and encoding it a
\* second time gives the same result.
C21_EncodeDoesNotMutate ==
    pc = "encoded_twice" =>
        /\ enc.first.inner = enc.before
        /\ Len(enc.first.inner) = Len(enc.before)
        /\ enc.second.res = enc.first.res

\* The number of bytes a field occupies on the wire (the payload takes what is left).
WireSize(field) ==
    CASE field.ty \in {"u8", "ArtTalkToMe"} -> 1
      [] field.ty \in {"u16", "PortAddress", "BigEndianLength"} -> 2
      [] field.ty = "Ipv4Addr" -> 4
      [] field.ty = "array" -> field.n
      [] OTHER -> 0

RECURSIVE EndOffset(_, _)
EndOffset(fields, i) == IF i = 0 THEN 0 ELSE EndOffset(fields, i - 1) + WireSize(fields[i])

\* The fields of a body that end after the n-th byte.
ShortFields(fields, n) == {i \in DOMAIN fields : EndOffset(fields, i) > n}

BodyCodec(opcode) ==
    CASE opcode = \h2000 -> [name |-> "Poll", fields |-> Poll_fields]
      [] opcode = \h2100 -> [name |-> "PollReply", fields |-> PollReply_fields]
      [] opcode = \h5000 -> [name |-> "Output", fields |-> Output_fields]

\* C22: a body-level decode failure is wrapped once per level.  When a field
\* of a Poll, PollReply or Output body cannot be decoded, from_buffer returns
\* OpcodeError(opcode name, DeserializeError(packet::field, cause)): the
\* field is the first in declaration order that could not be decoded and the
\* cause is the primitive error itself (end of input, or the port address out
\* of range).
C22_DecodeErrorWrapping ==
    ( /\ Decoded
      /\ Len(b.val) >= 14
      /\ SubSeq(b.val, 1, 8) = ARTNET_HEADER
      /\ WireOpcode(b.val) \in {\h2000, \h2100, \h5000}
      /\ ~d.ok ) =>
        LET codec == BodyCodec(WireOpcode(b.val))
            n == Len(WireBody(b.val))
            short == ShortFields(codec.fields, n)
            badPort == /\ codec.name = "Output"
                       /\ n >= 6
                       /\ WirePortAddress(b.val) > PORT_ADDRESS_MAX
            field == IF badPort THEN "port_address"
                     ELSE codec.fields[CHOOSE i \in short : \A j \in short : i <= j].name
            cause == IF badPort
                     THEN [kind |-> "InvalidPortAddress", value |-> WirePortAddress(b.val)]
                     ELSE [kind |-> "CursorEof"]
        IN /\ badPort \/ short # {}
           /\ d.err = [kind |-> "OpcodeError", name |-> codec.name,
                       inner |-> [kind |-> "DeserializeError",
                                  msg |-> <<"Could not deserialize field ", codec.name,
                                            "::", field>>,
                                  inner |-> cause]]

C22_Witness ==
    /\ Decoded
    /\ Len(b.val) = 17
    /\ SubSeq(b.val, 1, 8) = ARTNET_HEADER
    /\ WireOpcode(b.val) = \h5000
    /\ ~d.ok
    /\ d.err.kind = "OpcodeError"
    /\ d.err.name = "Output"
    /\ d.err.inner.msg = <<"Could not deserialize field ", "Output", "::", "length">>
    /\ d.err.inner.inner = [kind |-> "CursorEof"]

\* C23: a body-level encode failure is wrapped once with field context by the
\* body and once with opcode context by the router.  When write_to_buffer of
\* an Output fails because of its data length, the error returned carries
\* the opcode context, wrapping an error that names the field Output::data,
\* wrapping the message-size error.
C23_EncodeErrorWrapping ==
    (Encoded /\ v.variant = "Output" /\ ~b.ok) =>
        /\ b.err.kind = "OpcodeError"
        /\ b.err.name = "Output"
        /\ b.err.inner.kind = "SerializeError"
        /\ b.err.inner.msg = <<"Could not serialize field ", "Output", "::", "data">>
        /\ b.err.inner.inner.kind = "MessageSizeInvalid"

\* C24: PaddedData validates before writing.  When its length is 0 or above
\* 512, write_to_buffer returns the error and leaves the caller's buffer
\* exactly as it was, no data byte and no padding byte appended; a call that
\* succeeds appends to what the buffer held; and a failed
\* ArtCommand::write_to_buffer returns no bytes to the caller.
C24_ValidateBeforeWrite ==
    /\ pc = "encoded_twice" =>
          /\ enc.first.res.ok <=> Len(enc.before) \in 1..512
          /\ ~enc.first.res.ok =>
                /\ enc.first.buffer = enc.prefix
                /\ enc.first.res.err.kind = "MessageSizeInvalid"
          /\ enc.first.res.ok =>
                /\ enc.first.buffer = enc.first.res.val
                /\ SubSeq(enc.first.buffer, 1, Len(enc.prefix)) = enc.prefix
                /\ Len(enc.first.buffer) = Len(enc.prefix) + RoundedUp(Len(enc.before))
    /\ (Encoded /\ ~b.ok) => DOMAIN b = {"ok", "err"}

C24_Witness ==
    /\ pc = "encoded_twice"
    /\ enc.impl = "output/mod.rs"
    /\ Len(enc.before) = 513
    /\ ~enc.first.res.ok
    /\ enc.first.buffer = enc.prefix
    /\ Len(enc.prefix) = 4

C26_DataIsTheRest ==
    ( /\ Decoded
      /\ Len(b.val) >= 18
      /\ SubSeq(b.val, 1, 8) = ARTNET_HEADER
      /\ WireOpcode(b.val) = \h5000
      /\ WirePortAddress(b.val) <= PORT_ADDRESS_MAX ) =>
        /\ d.ok
        /\ d.val.variant = "Output"
        /\ d.val.body.data = SubSeq(b.val, 19, Len(b.val))

C26_Witness ==
    /\ Decoded
    /\ src = "network"
    /\ Len(b.val) = 18 + 513
    /\ d.ok
    /\ d.val.variant = "Output"
    /\ Len(d.val.body.data) = 513

\* C27: every Poll encodes to exactly 14 bytes: the header, the opcode bytes
\* 0x00 0x20, the version (2), talk_to_me (1) and diagnostics_priority (1),
\* in that order.  Encoding a Poll never fails and the result, meeting the
\* 14-byte minimum, is accepted by from_buffer.  Poll::default() holds
\* version [0, 14], talk_to_me 0 and priority 0x80.
C27_PollIs14Bytes ==
    /\ Poll_default =
          [version |-> <<0, 14>>, talk_to_me |-> 0, diagnostics_priority |-> \h80]
    /\ (Encoded /\ v.variant = "Poll") =>
          /\ b.ok
          /\ Len(b.val) = 14
          /\ b.val = <<65, 114, 116, 45, 78, 101, 116, 0, 0, \h20>>
                        \o v.body.version
                        \o <<v.body.talk_to_me, v.body.diagnostics_priority>>
    /\ (RoundTripped /\ v.variant = "Poll") =>
          /\ d.ok
          /\ d.val.variant = "Poll"

C27_Witness ==
    /\ RoundTripped
    /\ v = Poll(Poll_default)
    /\ b = Ok(<<65, 114, 116, 45, 78, 101, 116, 0, 0, \h20, 0, 14, 0, \h80>>)
    /\ d.ok
    /\ d.val.variant = "Poll"

\* The 229 bytes of a PollReply body, field by field in declaration order.
PollReplyLayout(r) ==
    r.address \o <<r.port % 256, r.port \div 256>> \o r.version \o r.port_address
        \o r.oem \o <<r.ubea_version, r.status_1>>
        \o <<r.esta_code % 256, r.esta_code \div 256>>
        \o r.short_name \o r.long_name \o r.node_report \o r.num_ports
        \o r.port_types \o r.good_input \o r.good_output \o r.swin \o r.swout
        \o <<r.sw_video, r.sw_macro, r.sw_remote>> \o r.spare \o <<r.style>>
        \o r.mac \o r.bind_ip \o <<r.bind_index, r.status_2>> \o r.filler

C29_TrailingBytesIgnored ==
    (Decoded /\ Len(b.val) >= 14 /\ SubSeq(b.val, 1, 8) = ARTNET_HEADER) =>
        /\ WireOpcode(b.val) = \h2000 =>
              /\ d.ok
              /\ d.val.variant = "Poll"
              /\ DOMAIN d.val.body = {"version", "talk_to_me", "diagnostics_priority"}
              /\ d.val.body.version = <<b.val[11], b.val[12]>>
              /\ d.val.body.talk_to_me = KnownFlagBits(b.val[13])
              /\ d.val.body.diagnostics_priority = b.val[14]
              /\ pc = "reencoded" => (b2.ok /\ Len(b2.val) = 14)
        /\ (WireOpcode(b.val) = \h2100 /\ Len(b.val) >= 239) =>
              /\ d.ok
              /\ d.val.variant = "PollReply"
              /\ PollReplyLayout(d.val.body) = SubSeq(b.val, 11, 239)
              /\ pc = "reencoded" => b2 = Ok(SubSeq(b.val, 1, 239))

C29_Witness ==
    /\ pc = "reencoded"
    /\ src = "network"
    /\ Len(b.val) = 240
    /\ WireOpcode(b.val) = \h2100
    /\ d.ok
    /\ d.val.variant = "PollReply"
    /\ b2.ok
    /\ Len(b2.val) = 239

====
